---------------------------- MODULE Spec2Model ----------------------------
(***************************************************************************)
(* State-machine model of the paddle game of src/main.cpp: the main loop   *)
(* of main() (event polling, then the eight simulation steps of one frame) *)
(* and the coin size queries of src/rotating_rect.cpp.                     *)
(*                                                                         *)
(* Numbers.  The source keeps the ball in floats.  The model keeps them as *)
(* exact fixed-point integers:                                             *)
(*   ball_dx, ball_dy        in units of 1/D          (direction)          *)
(*   current_ball_speed      in units of 1/SD         (pixels per frame)   *)
(*   ball_x, ball_y          in units of 1/U pixel,  U = D * SD            *)
(* so that  ball_x += ball_dx * current_ball_speed  is exact.  Float       *)
(* rounding is not modelled.  Paddles, coins and the mouse are in whole    *)
(* pixels, as in the source (SDL_Rect is int; coin positions are whole     *)
(* numbers stored in floats).                                              *)
(***************************************************************************)
EXTENDS Integers, Sequences, FiniteSets, TLC

\* ------------------------------------------------------------- constants
WINDOW_WIDTH == 800
WINDOW_HEIGHT == 600
BALL_DIAMETER == 30
BALL_RADIUS == BALL_DIAMETER \div 2
PADDLE_WIDTH == 20
PADDLE_HEIGHT == 100
PADDLE_SPEED == 6
BALL_BOOST_DURATION_FRAMES == 30
COIN_APPEAR_INTERVAL_FRAMES == 300
COIN_DURATION_FRAMES == 600
DEFAULT_COIN_FRAME_WIDTH == 32
DEFAULT_COIN_FRAME_HEIGHT == 32

\* Fixed-point denominators of the float quantities.
D == 205
SD == 5
U == D * SD

\* 4.0f, in units of 1/SD.
INITIAL_BALL_SPEED == 4 * SD
\* 1.2f and 0.8f as fractions <<numerator, denominator>>.
BALL_BOOST_FACTOR == <<6, 5>>
COIN_DRAW_SCALE == <<4, 5>>

\* ---------------------------------------------------------------- bounds
\* Frames the game specification runs for.
MaxFrame == 400
\* Frames run by the rally specification.
MaxRallyFrame == 345
\* Frames run by the start-up specification.
MaxStartFrame == 4
\* Pointer-down events arrive while at most this many frames are complete.
MaxClickFrame == 1
\* Frames the paddle specification runs for.
MaxPaddleFrame == 44
\* Frames the idle (never launched) specification runs for.
MaxIdleFrame == 905
\* Frames run by the progress specification.
MaxProgressFrame == 950
\* Frames run by the coin-attribution specification.
MaxCoinFrame == 451

\* ---------------------------------------------------------------- inputs
\* The four movement keys read from SDL_GetKeyboardState.
KeyNames == {"W", "S", "UP", "DOWN"}
\* Key states offered to the game specification / the paddle specification.
KeysGame == {{}}
KeysAll == SUBSET KeyNames
\* The rally: S and UP held in every frame, which takes the left paddle to the
\* bottom and the right paddle to the top, where the ball meets them in turn.
KeysRally == {{"S", "UP"}}

\* Random angles rand() can produce, each as <<cos, sin>> in units of 1/D.
\* The axis-aligned ones fail the |sin|, |cos| >= 0.2 test of the source, and
\* so do <<40, 201>> and <<201, 40>>, just below the threshold; <<41, 201>>,
\* with cos = 0.2 exactly, passes it.
Angles ==
    { <<D, 0>>, <<0, D>>, <<-D, 0>>, <<0, -D>>,
      <<40, 201>>, <<201, 40>>, <<41, 201>>,
      <<-123, 164>>, <<123, -164>>,
      <<-164, 123>>, <<164, -123>>,
      <<-84, 187>>, <<84, -187>> }

\* The angles offered to the progress specification: the slowest accepted
\* one, cos = 0.2, one that sends the ball to the left paddle, and one that
\* is rejected.
AnglesProgress == { <<41, 201>>, <<-123, 164>>, <<40, 201>> }

\* Pointer-down positions (pixels).
Clicks == { <<400, 300>>, <<409, 312>>, <<410, 312>>, <<416, 300>> }
\* Those of them that miss the ball at the window center.
ClicksOff == { <<410, 312>>, <<416, 300>> }

\* Outcomes of the start-up sequence: sdl is the libraries, window and
\* renderer; coins, sound and font are the three asset loads, attempted in this
\* order, the later ones only once the earlier steps have not returned.
Loads ==
    { o \in [sdl : BOOLEAN, coins : BOOLEAN, sound : BOOLEAN, font : BOOLEAN] :
        /\ (o.coins => o.sdl)
        /\ ((o.sound \/ o.font) => o.coins) }
\* The start-up in which everything loads.
LoadsAll == { [sdl |-> TRUE, coins |-> TRUE, sound |-> TRUE, font |-> TRUE] }

\* Pairs of rand() results used by spawnCoin.
\* They put the coin at (400, 300), (360, 397), (440, 203), and at (32, 300)
\* and (766, 300), the leftmost and rightmost columns, level with the paddles.
CoinRand == { <<368, 288>>, <<328, 385>>, <<408, 191>>, <<0, 288>>, <<734, 288>> }

\* rand() pairs for the coin-attribution specification: the coin at the window
\* center, where a miss-reset puts the ball, and in the leftmost and rightmost
\* columns at (32, 338) and (766, 260), where the ball first reaches it in
\* the frame of a hit on the corner of the left and of the right paddle.
CoinRandNear == { <<368, 288>>, <<0, 326>>, <<734, 248>> }

\* A single rand() pair, for the specification that follows the ball only:
\* the coin at (400, 300).
CoinRandOne == { <<368, 288>> }

\* ----------------------------------------------------------------- state
VARIABLES
    assets,           \* what start-up has loaded: [sdl, coins, sound, font]
    ball_x, ball_y, ball_dx, ball_dy,
    current_ball_speed, ball_boost_timer,
    leftPaddle, rightPaddle,
    coins, coin_spawn_timer,
    left_score, right_score,
    last_ball_hit, left_consecutive_hits, right_consecutive_hits,
    quit, reflected_this_frame,
    pc,               \* the next step of the main loop
    frame,            \* history: number of the frame being run (completed, at "Poll")
    ev,               \* history: what happened in this frame
    since_reflection, \* history: frames since the last reflection frame, with no
                      \*   miss-reset or launch since; -1 if there is none
    timer_at_reflection, \* history: ball_boost_timer as that reflection frame's
                      \*   boost step found it; -1 if there is none
    last_event,       \* history: the latest of the paddle hits and miss-resets
    prev_event        \* history: the one before it

ballVars == <<ball_x, ball_y, ball_dx, ball_dy>>
boostVars == <<current_ball_speed, ball_boost_timer>>
paddleVars == <<leftPaddle, rightPaddle>>
coinVars == <<coins, coin_spawn_timer>>
scoreVars == <<left_score, right_score>>
hitVars == <<last_ball_hit, left_consecutive_hits, right_consecutive_hits>>
vars == <<assets, ball_x, ball_y, ball_dx, ball_dy, current_ball_speed, ball_boost_timer,
          leftPaddle, rightPaddle, coins, coin_spawn_timer, left_score, right_score,
          last_ball_hit, left_consecutive_hits, right_consecutive_hits,
          quit, reflected_this_frame, pc, frame, ev,
          since_reflection, timer_at_reflection, last_event, prev_event>>

\* --------------------------------------------------------------- helpers
Abs(x) == IF x < 0 THEN -x ELSE x
Min(a, b) == IF a < b THEN a ELSE b
Max(a, b) == IF a > b THEN a ELSE b

\* Integer square root (sqrt on floats, to the resolution of the model).
ISqrt(n) == CHOOSE r \in 0..(2 * D) : r * r <= n /\ n < (r + 1) * (r + 1)

\* checkCircleRectCollision: the circle is in units of 1/U pixel, the
\* rectangle and the radius in pixels.  The squared distance is compared only
\* when both components are below the radius (otherwise it is not below the
\* squared radius either); this keeps the squares within TLC's integers.
checkCircleRectCollision(circleX, circleY, circleRadius, rect) ==
    LET closestX == Max(rect.x * U, Min(circleX, (rect.x + rect.w) * U))
        closestY == Max(rect.y * U, Min(circleY, (rect.y + rect.h) * U))
        distanceX == circleX - closestX
        distanceY == circleY - closestY
        r == circleRadius * U
    IN  /\ Abs(distanceX) < r
        /\ Abs(distanceY) < r
        /\ distanceX * distanceX + distanceY * distanceY < r * r

\* checkRectRectCollision: SDL_HasIntersection, which is false for empty
\* rectangles and for rectangles that only touch.
checkRectRectCollision(rect1, rect2) ==
    /\ rect1.w > 0 /\ rect1.h > 0 /\ rect2.w > 0 /\ rect2.h > 0
    /\ Max(rect1.x, rect2.x) < Min(rect1.x + rect1.w, rect2.x + rect2.w)
    /\ Max(rect1.y, rect2.y) < Min(rect1.y + rect1.h, rect2.y + rect2.h)

\* getCoinRenderedWidth / Height: static_cast<int>(width * scale).  The
\* sprite files are not part of the sources; their size is taken to be the
\* default frame size.
getCoinRenderedWidth(scale) == (DEFAULT_COIN_FRAME_WIDTH * scale[1]) \div scale[2]
getCoinRenderedHeight(scale) == (DEFAULT_COIN_FRAME_HEIGHT * scale[1]) \div scale[2]

\* Mutant: the angle loop tests the sine only.
AngleRejected_SinOnly(a) == 5 * Abs(a[2]) < D

\* The do-while test of the angle loops: the angle is drawn again while this holds.
AngleRejected(a) == 5 * Abs(a[2]) < D \/ 5 * Abs(a[1]) < D

\* cos/sin of the accepted angle, divided by their magnitude.
LaunchDirection(a) ==
    LET magnitude == ISqrt(a[1] * a[1] + a[2] * a[2])
    IN  IF magnitude /= 0
        THEN <<(a[1] * D) \div magnitude, (a[2] * D) \div magnitude>>
        ELSE a

\* INITIAL_BALL_SPEED * BALL_BOOST_FACTOR
BoostedSpeed == (INITIAL_BALL_SPEED * BALL_BOOST_FACTOR[1]) \div BALL_BOOST_FACTOR[2]

\* Nothing has happened in the frame.  click is the last pointer-down event
\* polled after the frame: where it was, and whether it launched the ball.
NoClick == [at |-> <<>>, launched |-> FALSE]
NoEvent == [wall |-> "None", hit |-> "None", miss |-> "None",
            expired |-> {}, collected |-> {}, click |-> NoClick]

\* ------------------------------------------------------------------ Init
Init ==
    /\ assets = [sdl |-> FALSE, coins |-> FALSE, sound |-> FALSE, font |-> FALSE]
    /\ ball_x = (WINDOW_WIDTH * U) \div 2
    /\ ball_y = (WINDOW_HEIGHT * U) \div 2
    /\ ball_dx = 0
    /\ ball_dy = 0
    /\ current_ball_speed = INITIAL_BALL_SPEED
    /\ ball_boost_timer = 0
    /\ leftPaddle = [x |-> 0, y |-> (WINDOW_HEIGHT - PADDLE_HEIGHT) \div 2,
                     w |-> PADDLE_WIDTH, h |-> PADDLE_HEIGHT]
    /\ rightPaddle = [x |-> WINDOW_WIDTH - PADDLE_WIDTH,
                      y |-> (WINDOW_HEIGHT - PADDLE_HEIGHT) \div 2,
                      w |-> PADDLE_WIDTH, h |-> PADDLE_HEIGHT]
    /\ coins = <<>>
    /\ coin_spawn_timer = 0
    /\ left_score = 0
    /\ right_score = 0
    /\ last_ball_hit = "None"
    /\ left_consecutive_hits = 0
    /\ right_consecutive_hits = 0
    /\ quit = FALSE
    /\ reflected_this_frame = FALSE
    /\ pc = "Start"
    /\ frame = 0
    /\ ev = NoEvent
    /\ since_reflection = -1
    /\ timer_at_reflection = -1
    /\ last_event = "None"
    /\ prev_event = "None"


\* --------------------------------------------------------------- start-up
\* main up to the loop: a failure of SDL, the window, the renderer or the coin
\* system returns 1; a failure of the sound or the font is only logged.
Startup(loads) ==
    /\ pc = "Start"
    /\ \E o \in loads :
        /\ assets' = o
        /\ pc' = IF o.sdl /\ o.coins THEN "Poll" ELSE "Failed"
    /\ UNCHANGED <<ballVars, boostVars, paddleVars, coinVars, scoreVars, hitVars,
                   quit, reflected_this_frame, frame, ev,
                   since_reflection, timer_at_reflection, last_event, prev_event>>

\* ---------------------------------------------------------------- events
\* Mutant: the launch does not test that the ball is at rest.
Stationary_Untested == TRUE
Stationary == ball_dx = 0 /\ ball_dy = 0

\* Mutant: the click test is distance < BALL_RADIUS.
ClickOnBall_Strict(m) ==
    LET distX == m[1] * U - ball_x
        distY == m[2] * U - ball_y
        r == BALL_RADIUS * U
    IN  /\ Abs(distX) < r
        /\ Abs(distY) < r
        /\ distX * distX + distY * distY < r * r

\* distance <= BALL_RADIUS, with distance = sqrt(dx^2 + dy^2); compared on the
\* squares, and only when both components are within the radius.
ClickOnBall(m) ==
    LET distX == m[1] * U - ball_x
        distY == m[2] * U - ball_y
        r == BALL_RADIUS * U
    IN  /\ Abs(distX) <= r
        /\ Abs(distY) <= r
        /\ distX * distX + distY * distY <= r * r

\* SDL_QUIT
PollQuit ==
    /\ pc = "Poll"
    /\ UNCHANGED assets
    /\ quit' = TRUE
    /\ UNCHANGED <<ballVars, boostVars, paddleVars, coinVars, scoreVars, hitVars,
                   reflected_this_frame, pc, frame, ev,
                   since_reflection, timer_at_reflection, last_event, prev_event>>

\* SDL_MOUSEBUTTONDOWN at one of the pixels of clicks; a is the angle the
\* sampling loop ends with.
MouseButtonDown(clicks, angles) ==
    /\ pc = "Poll"
    /\ UNCHANGED assets
    /\ frame <= MaxClickFrame
    /\ \E m \in clicks :
        IF Stationary /\ ClickOnBall(m)
        THEN /\ \E a \in angles :
                    /\ ~AngleRejected(a)
                    /\ ball_dx' = LaunchDirection(a)[1]
                    /\ ball_dy' = LaunchDirection(a)[2]
             /\ current_ball_speed' = INITIAL_BALL_SPEED
             /\ ball_boost_timer' = 0
             /\ since_reflection' = -1
             /\ timer_at_reflection' = -1
             /\ ev' = [ev EXCEPT !.click = [at |-> m, launched |-> TRUE]]
             /\ UNCHANGED <<ball_x, ball_y, paddleVars, coinVars, scoreVars, hitVars,
                            quit, reflected_this_frame, pc, frame, last_event, prev_event>>
        ELSE /\ ev' = [ev EXCEPT !.click = [at |-> m, launched |-> FALSE]]
             /\ UNCHANGED <<ballVars, boostVars, paddleVars, coinVars, scoreVars,
                            hitVars, quit, reflected_this_frame, pc, frame,
                            since_reflection, timer_at_reflection, last_event, prev_event>>

\* The handler with every angle of Angles on offer.
PollMouseButtonDown(clicks) == MouseButtonDown(clicks, Angles)

\* ---------------------------------------------------- 1. paddle movement
\* Mutant: the lower-edge clamp compares the paddle's top instead of its bottom.
ClampPaddle_TopOnly(y) ==
    LET y1 == IF y < 0 THEN 0 ELSE y
    IN  IF y1 > WINDOW_HEIGHT THEN WINDOW_HEIGHT - PADDLE_HEIGHT ELSE y1

\* The two clamps of one paddle.
ClampPaddle(y) ==
    LET y1 == IF y < 0 THEN 0 ELSE y
    IN  IF y1 + PADDLE_HEIGHT > WINDOW_HEIGHT THEN WINDOW_HEIGHT - PADDLE_HEIGHT ELSE y1

\* Key-driven movement of one paddle, then its clamp.
MovePaddle(p, keys, up, down) ==
    LET y1 == IF up \in keys THEN p.y - PADDLE_SPEED ELSE p.y
        y2 == IF down \in keys THEN y1 + PADDLE_SPEED ELSE y1
    IN  [p EXCEPT !.y = ClampPaddle(y2)]

\* First step of a frame; limit bounds the number of frames run.
PaddleMovement(keysets, limit) ==
    /\ pc = "Poll"
    /\ UNCHANGED assets
    /\ frame < limit
    /\ \E keys \in keysets :
        /\ leftPaddle' = MovePaddle(leftPaddle, keys, "W", "S")
        /\ rightPaddle' = MovePaddle(rightPaddle, keys, "UP", "DOWN")
    /\ pc' = "Move"
    /\ frame' = frame + 1
    /\ ev' = NoEvent
    /\ UNCHANGED <<ballVars, boostVars, coinVars, scoreVars, hitVars, quit,
                   reflected_this_frame,
                   since_reflection, timer_at_reflection, last_event, prev_event>>

\* ------------------------------------------------------ 2. ball movement
\* Mutant: the movement leaves ball_x alone.
BallMovement_OnlyY ==
    /\ pc = "Move"
    /\ UNCHANGED assets
    /\ ball_y' = ball_y + ball_dy * current_ball_speed
    /\ reflected_this_frame' = FALSE
    /\ pc' = "Walls"
    /\ UNCHANGED <<ball_x, ball_dx, ball_dy, boostVars, paddleVars, coinVars, scoreVars,
                   hitVars, quit, frame, ev,
                   since_reflection, timer_at_reflection, last_event, prev_event>>

BallMovement ==
    /\ pc = "Move"
    /\ UNCHANGED assets
    /\ ball_x' = ball_x + ball_dx * current_ball_speed
    /\ ball_y' = ball_y + ball_dy * current_ball_speed
    /\ reflected_this_frame' = FALSE
    /\ pc' = "Walls"
    /\ UNCHANGED <<ball_dx, ball_dy, boostVars, paddleVars, coinVars, scoreVars,
                   hitVars, quit, frame, ev,
                   since_reflection, timer_at_reflection, last_event, prev_event>>

\* ----------------------------------------------------- 3. wall collisions
\* Mutant: the bottom wall sets dy to +|dy|.
WallReflect_WrongSign(y, dy) ==
    IF y + BALL_RADIUS * U > WINDOW_HEIGHT * U
    THEN [wall |-> "Bottom", y |-> (WINDOW_HEIGHT - BALL_RADIUS) * U, dy |-> Abs(dy)]
    ELSE IF y - BALL_RADIUS * U < 0
         THEN [wall |-> "Top", y |-> BALL_RADIUS * U, dy |-> Abs(dy)]
         ELSE [wall |-> "None", y |-> y, dy |-> dy]

\* The wall step as a function of (ball_y, ball_dy): which wall, new y, new dy.
WallReflect(y, dy) ==
    IF y + BALL_RADIUS * U > WINDOW_HEIGHT * U
    THEN [wall |-> "Bottom", y |-> (WINDOW_HEIGHT - BALL_RADIUS) * U, dy |-> -Abs(dy)]
    ELSE IF y - BALL_RADIUS * U < 0
         THEN [wall |-> "Top", y |-> BALL_RADIUS * U, dy |-> Abs(dy)]
         ELSE [wall |-> "None", y |-> y, dy |-> dy]

WallCollisions ==
    /\ pc = "Walls"
    /\ UNCHANGED assets
    /\ LET w == WallReflect(ball_y, ball_dy)
       IN  /\ ball_y' = w.y
           /\ ball_dy' = w.dy
           /\ reflected_this_frame' = (reflected_this_frame \/ w.wall /= "None")
           /\ ev' = [ev EXCEPT !.wall = w.wall]
    /\ pc' = "Collide"
    /\ UNCHANGED <<ball_x, ball_dx, boostVars, paddleVars, coinVars, scoreVars,
                   hitVars, quit, frame,
                   since_reflection, timer_at_reflection, last_event, prev_event>>

\* --------------------------------------------------- 4. paddle collisions
\* Mutant: a hit that does not follow a hit of the same paddle scores too.
ConsecutiveHit_ScoreFirst(sameAsLast, own, other, score) ==
    IF sameAsLast
    THEN IF own + 1 >= 2
         THEN [own |-> 0, other |-> other, score |-> score + 1]
         ELSE [own |-> own + 1, other |-> other, score |-> score]
    ELSE [own |-> 1, other |-> 0, score |-> score + 1]

\* Mutant: a new streak leaves the opponent's counter as it was.
ConsecutiveHit_KeepsOther(sameAsLast, own, other, score) ==
    IF sameAsLast
    THEN IF own + 1 >= 2
         THEN [own |-> 0, other |-> other, score |-> score + 1]
         ELSE [own |-> own + 1, other |-> other, score |-> score]
    ELSE [own |-> 1, other |-> other, score |-> score]

\* Scoring rule 1 for the paddle that was hit: own counter, other counter, own score.
ConsecutiveHit(sameAsLast, own, other, score) ==
    IF sameAsLast
    THEN IF own + 1 >= 2
         THEN [own |-> 0, other |-> other, score |-> score + 1]
         ELSE [own |-> own + 1, other |-> other, score |-> score]
    ELSE [own |-> 1, other |-> 0, score |-> score]

\* Mutant: the left push-out puts the ball on the paddle's left edge.
PushOutLeft_PaddleX == leftPaddle.x * U

\* Mutant: a hit of the left paddle leaves ball_dx as it is.
ReflectLeft_Keeps == ball_dx

\* ball_dx after a hit of the left / right paddle.
ReflectLeft == Abs(ball_dx)
ReflectRight == -Abs(ball_dx)

\* Where a hit of the left / right paddle puts the ball.
PushOutLeft == (leftPaddle.x + PADDLE_WIDTH + BALL_RADIUS) * U
PushOutRight == (rightPaddle.x - BALL_RADIUS) * U

HitsLeftPaddle ==
    ball_dx < 0 /\ checkCircleRectCollision(ball_x, ball_y, BALL_RADIUS, leftPaddle)

HitsRightPaddle ==
    ball_dx > 0 /\ checkCircleRectCollision(ball_x, ball_y, BALL_RADIUS, rightPaddle)

PaddleCollisions ==
    /\ pc = "Collide"
    /\ UNCHANGED assets
    /\ IF HitsLeftPaddle
       THEN LET r == ConsecutiveHit(last_ball_hit = "Left", left_consecutive_hits,
                                    right_consecutive_hits, left_score)
            IN  /\ ball_x' = PushOutLeft
                /\ ball_dx' = ReflectLeft
                /\ reflected_this_frame' = TRUE
                /\ left_consecutive_hits' = r.own
                /\ right_consecutive_hits' = r.other
                /\ left_score' = r.score
                /\ last_ball_hit' = "Left"
                /\ ev' = [ev EXCEPT !.hit = "Left"]
                /\ last_event' = "Left"
                /\ prev_event' = last_event
                /\ UNCHANGED right_score
       ELSE IF HitsRightPaddle
       THEN LET r == ConsecutiveHit(last_ball_hit = "Right", right_consecutive_hits,
                                    left_consecutive_hits, right_score)
            IN  /\ ball_x' = PushOutRight
                /\ ball_dx' = ReflectRight
                /\ reflected_this_frame' = TRUE
                /\ right_consecutive_hits' = r.own
                /\ left_consecutive_hits' = r.other
                /\ right_score' = r.score
                /\ last_ball_hit' = "Right"
                /\ ev' = [ev EXCEPT !.hit = "Right"]
                /\ last_event' = "Right"
                /\ prev_event' = last_event
                /\ UNCHANGED left_score
       ELSE UNCHANGED <<ball_x, ball_dx, reflected_this_frame, hitVars, scoreVars, ev,
                        last_event, prev_event>>
    /\ pc' = "Bounds"
    /\ UNCHANGED <<ball_y, ball_dy, boostVars, paddleVars, coinVars, quit, frame,
                   since_reflection, timer_at_reflection>>

\* ------------------------------------------------------ 5. out of bounds
\* Mutant: the left test waits for the ball's center to pass the edge.
PastLeftEdge_Center == ball_x < 0
PastLeftEdge == ball_x - BALL_RADIUS * U < 0
PastRightEdge == ball_x + BALL_RADIUS * U > WINDOW_WIDTH * U

\* Mutant: the reset leaves last_ball_hit as it is.
ResetBall_KeepsLastHit(a) ==
    /\ ~AngleRejected(a)
    /\ ball_x' = (WINDOW_WIDTH * U) \div 2
    /\ ball_y' = (WINDOW_HEIGHT * U) \div 2
    /\ ball_dx' = LaunchDirection(a)[1]
    /\ ball_dy' = LaunchDirection(a)[2]
    /\ current_ball_speed' = INITIAL_BALL_SPEED
    /\ ball_boost_timer' = 0
    /\ left_consecutive_hits' = 0
    /\ right_consecutive_hits' = 0
    /\ UNCHANGED last_ball_hit

\* The reset both miss branches perform; a is the angle their loop ends with.
ResetBall(a) ==
    /\ ~AngleRejected(a)
    /\ ball_x' = (WINDOW_WIDTH * U) \div 2
    /\ ball_y' = (WINDOW_HEIGHT * U) \div 2
    /\ ball_dx' = LaunchDirection(a)[1]
    /\ ball_dy' = LaunchDirection(a)[2]
    /\ current_ball_speed' = INITIAL_BALL_SPEED
    /\ ball_boost_timer' = 0
    /\ left_consecutive_hits' = 0
    /\ right_consecutive_hits' = 0
    /\ last_ball_hit' = "None"

\* Mutant: the point goes to the side that missed.
MissScore_SameSide(side) ==
    IF side = "Left"
    THEN [left_score |-> left_score + 1, right_score |-> right_score]
    ELSE [left_score |-> left_score, right_score |-> right_score + 1]

\* Mutant: a miss takes a point from the side that missed.
MissScore_Penalty(side) ==
    IF side = "Left"
    THEN [left_score |-> left_score - 1, right_score |-> right_score]
    ELSE [left_score |-> left_score, right_score |-> right_score - 1]

\* The scores after a miss on the given side.
MissScore(side) ==
    IF side = "Left"
    THEN [left_score |-> left_score, right_score |-> right_score + 1]
    ELSE [left_score |-> left_score + 1, right_score |-> right_score]

OutOfBoundsFrom(angles) ==
    /\ pc = "Bounds"
    /\ UNCHANGED assets
    /\ IF PastLeftEdge \/ PastRightEdge
       THEN LET side == IF PastLeftEdge THEN "Left" ELSE "Right"
            IN  /\ left_score' = MissScore(side).left_score
                /\ right_score' = MissScore(side).right_score
                /\ \E a \in angles : ResetBall(a)
                /\ ev' = [ev EXCEPT !.miss = side]
                /\ last_event' = "Miss"
                /\ prev_event' = last_event
       ELSE UNCHANGED <<ballVars, boostVars, hitVars, scoreVars, ev, last_event, prev_event>>
    /\ pc' = "Boost"
    /\ UNCHANGED <<paddleVars, coinVars, quit, reflected_this_frame, frame,
                   since_reflection, timer_at_reflection>>

\* The step with every angle of Angles on offer.
OutOfBounds == OutOfBoundsFrom(Angles)

\* ---------------------------------------------------- 6. speed boost logic
\* Mutant: the decrement is an else branch, skipped in the reflection frame.
Boost_ElseDecrement(reflected, speed, timer) ==
    IF reflected
    THEN [timer |-> BALL_BOOST_DURATION_FRAMES, speed |-> BoostedSpeed]
    ELSE IF timer > 0
         THEN [timer |-> timer - 1,
               speed |-> IF timer - 1 = 0 THEN INITIAL_BALL_SPEED ELSE speed]
         ELSE [timer |-> timer, speed |-> speed]

\* Mutant: a reflection adds the full duration to a running timer.
Boost_Accumulates(reflected, speed, timer) ==
    LET t1 == IF reflected THEN timer + BALL_BOOST_DURATION_FRAMES ELSE timer
        s1 == IF reflected THEN BoostedSpeed ELSE speed
    IN  IF t1 > 0
        THEN [timer |-> t1 - 1,
              speed |-> IF t1 - 1 = 0 THEN INITIAL_BALL_SPEED ELSE s1]
        ELSE [timer |-> t1, speed |-> s1]

\* Mutant: the speed is not reverted when the timer reaches 0.
Boost_NoRevert(reflected, speed, timer) ==
    LET t1 == IF reflected THEN BALL_BOOST_DURATION_FRAMES ELSE timer
        s1 == IF reflected THEN BoostedSpeed ELSE speed
    IN  IF t1 > 0
        THEN [timer |-> t1 - 1, speed |-> s1]
        ELSE [timer |-> t1, speed |-> s1]

\* The boost step as a function of (reflected_this_frame, speed, timer).
Boost(reflected, speed, timer) ==
    LET t1 == IF reflected THEN BALL_BOOST_DURATION_FRAMES ELSE timer
        s1 == IF reflected THEN BoostedSpeed ELSE speed
    IN  IF t1 > 0
        THEN [timer |-> t1 - 1,
              speed |-> IF t1 - 1 = 0 THEN INITIAL_BALL_SPEED ELSE s1]
        ELSE [timer |-> t1, speed |-> s1]

BoostLogic ==
    /\ pc = "Boost"
    /\ UNCHANGED assets
    /\ LET b == Boost(reflected_this_frame, current_ball_speed, ball_boost_timer)
       IN  /\ ball_boost_timer' = b.timer
           /\ current_ball_speed' = b.speed
    /\ since_reflection' =
          IF reflected_this_frame THEN 0
          ELSE IF ev.miss /= "None" \/ since_reflection < 0 THEN -1
          ELSE Min(since_reflection + 1, BALL_BOOST_DURATION_FRAMES + 1)
    /\ timer_at_reflection' =
          IF reflected_this_frame THEN ball_boost_timer
          ELSE IF ev.miss /= "None" \/ since_reflection < 0 THEN -1
          ELSE timer_at_reflection
    /\ pc' = "Spawn"
    /\ UNCHANGED <<ballVars, paddleVars, coinVars, scoreVars, hitVars, quit,
                   reflected_this_frame, frame, ev, last_event, prev_event>>

\* ------------------------------------------------------------ 7. coin spawn
\* Mutant: spawnCoin leaves out the PADDLE_WIDTH offset of coin_x.
spawnCoin_NoMargin(r) ==
    LET coinEffectiveWidth == getCoinRenderedWidth(COIN_DRAW_SCALE)
        coinEffectiveHeight == getCoinRenderedHeight(COIN_DRAW_SCALE)
        coin_x == (r[1] % (WINDOW_WIDTH - 2 * PADDLE_WIDTH - coinEffectiveWidth))
                    + (coinEffectiveWidth \div 2)
        coin_y == (r[2] % (WINDOW_HEIGHT - coinEffectiveHeight))
                    + (coinEffectiveHeight \div 2)
    IN  [x |-> coin_x, y |-> coin_y, timer |-> COIN_DURATION_FRAMES, born |-> frame]

\* spawnCoin, with r = <<first rand(), second rand()>>.
spawnCoin(r) ==
    LET coinEffectiveWidth == getCoinRenderedWidth(COIN_DRAW_SCALE)
        coinEffectiveHeight == getCoinRenderedHeight(COIN_DRAW_SCALE)
        coin_x == (r[1] % (WINDOW_WIDTH - 2 * PADDLE_WIDTH - coinEffectiveWidth))
                    + PADDLE_WIDTH + (coinEffectiveWidth \div 2)
        coin_y == (r[2] % (WINDOW_HEIGHT - coinEffectiveHeight))
                    + (coinEffectiveHeight \div 2)
    IN  [x |-> coin_x, y |-> coin_y, timer |-> COIN_DURATION_FRAMES, born |-> frame]

\* Mutant: the spawn test is > instead of >=.
SpawnDue_Late(t) == t > COIN_APPEAR_INTERVAL_FRAMES

\* The spawn test on the incremented counter.
SpawnDue(t) == t >= COIN_APPEAR_INTERVAL_FRAMES

CoinLogic(rands) ==
    /\ pc = "Spawn"
    /\ UNCHANGED assets
    /\ IF SpawnDue(coin_spawn_timer + 1)
       THEN /\ \E r \in rands : coins' = Append(coins, spawnCoin(r))
            /\ coin_spawn_timer' = 0
       ELSE /\ coin_spawn_timer' = coin_spawn_timer + 1
            /\ UNCHANGED coins
    /\ pc' = "Coins"
    /\ UNCHANGED <<ballVars, boostVars, paddleVars, scoreVars, hitVars, quit,
                   reflected_this_frame, frame, ev,
                   since_reflection, timer_at_reflection, last_event, prev_event>>

\* -------------------------------------------------------- 8. the coin loop
\* The coin's bounding box.
CoinRect(c) ==
    [x |-> c.x - (getCoinRenderedWidth(COIN_DRAW_SCALE) \div 2),
     y |-> c.y - (getCoinRenderedHeight(COIN_DRAW_SCALE) \div 2),
     w |-> getCoinRenderedWidth(COIN_DRAW_SCALE),
     h |-> getCoinRenderedHeight(COIN_DRAW_SCALE)]

\* Mutant: a ball collection with last_ball_hit = None pays the left player.
CollectCoin_NoneScores(coinRect, s) ==
    LET byBall == checkCircleRectCollision(ball_x, ball_y, BALL_RADIUS, coinRect)
        s1 == IF byBall /\ last_ball_hit /= "Right"
              THEN [s EXCEPT !.left_score = @ + 1]
              ELSE IF byBall
                   THEN [s EXCEPT !.right_score = @ + 1]
                   ELSE s
        byLeft == ~byBall /\ checkRectRectCollision(leftPaddle, coinRect)
        s2 == IF byLeft THEN [s1 EXCEPT !.left_score = @ + 1] ELSE s1
        byRight == ~(byBall \/ byLeft) /\ checkRectRectCollision(rightPaddle, coinRect)
        s3 == IF byRight THEN [s2 EXCEPT !.right_score = @ + 1] ELSE s2
    IN  [left_score |-> s3.left_score, right_score |-> s3.right_score,
         by |-> IF byBall THEN "Ball" ELSE IF byLeft THEN "Left"
                ELSE IF byRight THEN "Right" ELSE "None"]

\* The three collision tests of one coin, in the order of the source; s holds
\* the two scores so far.  by names the collector ("None": not collected).
CollectCoin(coinRect, s) ==
    LET byBall == checkCircleRectCollision(ball_x, ball_y, BALL_RADIUS, coinRect)
        s1 == IF byBall /\ last_ball_hit = "Left"
              THEN [s EXCEPT !.left_score = @ + 1]
              ELSE IF byBall /\ last_ball_hit = "Right"
                   THEN [s EXCEPT !.right_score = @ + 1]
                   ELSE s
        byLeft == ~byBall /\ checkRectRectCollision(leftPaddle, coinRect)
        s2 == IF byLeft THEN [s1 EXCEPT !.left_score = @ + 1] ELSE s1
        byRight == ~(byBall \/ byLeft) /\ checkRectRectCollision(rightPaddle, coinRect)
        s3 == IF byRight THEN [s2 EXCEPT !.right_score = @ + 1] ELSE s2
    IN  [left_score |-> s3.left_score, right_score |-> s3.right_score,
         by |-> IF byBall THEN "Ball" ELSE IF byLeft THEN "Left"
                ELSE IF byRight THEN "Right" ELSE "None"]

\* Mutant: the expiry test is < 0 instead of <= 0.
CoinExpired_Late(timer) == timer < 0

\* Mutant: the expiry test is left out.
CoinExpired_Never(timer) == FALSE

\* The expiry test on the decremented timer.
CoinExpired(timer) == timer <= 0

\* The for loop over the coins from index i on; acc is the loop's state so far:
\* the coins kept, the scores, and (history) the coins expired and collected.
RECURSIVE CoinLoopFrom(_, _)
CoinLoopFrom(i, acc) ==
    IF i > Len(coins) THEN acc
    ELSE LET c == [coins[i] EXCEPT !.timer = @ - 1]
         IN  IF CoinExpired(c.timer)
             THEN CoinLoopFrom(i + 1, [acc EXCEPT !.expired = @ \cup {c.born}])
             ELSE LET r == CollectCoin(CoinRect(c),
                                       [left_score |-> acc.left_score,
                                        right_score |-> acc.right_score])
                  IN  IF r.by /= "None"
                      THEN CoinLoopFrom(i + 1,
                              [acc EXCEPT !.left_score = r.left_score,
                                          !.right_score = r.right_score,
                                          !.collected = @ \cup {[born |-> c.born, by |-> r.by]}])
                      ELSE CoinLoopFrom(i + 1, [acc EXCEPT !.coins = Append(@, c)])

\* Mutant: the loop test ignores quit.
LoopTest_Ignored == "Poll"

\* while (!quit): where control goes at the end of an iteration.
LoopTest == IF quit THEN "Exited" ELSE "Poll"

\* The coin loop, the rendering (no effect on the state) and the loop test.
CoinLoop ==
    /\ pc = "Coins"
    /\ UNCHANGED assets
    /\ LET r == CoinLoopFrom(1, [coins |-> <<>>, left_score |-> left_score,
                                 right_score |-> right_score,
                                 expired |-> {}, collected |-> {}])
       IN  /\ coins' = r.coins
           /\ left_score' = r.left_score
           /\ right_score' = r.right_score
           /\ ev' = [ev EXCEPT !.expired = r.expired, !.collected = r.collected]
    /\ pc' = LoopTest
    /\ UNCHANGED <<ballVars, boostVars, paddleVars, coin_spawn_timer, hitVars, quit,
                   reflected_this_frame, frame,
                   since_reflection, timer_at_reflection, last_event, prev_event>>

\* ---------------------------------------------------------- specifications
\* The game: static paddles unless KeysGame offers keys, one launch.
Next ==
    \/ Startup(LoadsAll)
    \/ PollQuit
    \/ PollMouseButtonDown(Clicks)
    \/ PaddleMovement(KeysGame, MaxFrame)
    \/ BallMovement
    \/ WallCollisions
    \/ PaddleCollisions
    \/ OutOfBounds
    \/ BoostLogic
    \/ CoinLogic(CoinRand)
    \/ CoinLoop

Spec == Init /\ [][Next]_vars

\* The paddles alone: every key state in every frame, the ball never launched.
NextPaddles ==
    \/ Startup(LoadsAll)
    \/ PollMouseButtonDown(ClicksOff)
    \/ PaddleMovement(KeysAll, MaxPaddleFrame)
    \/ BallMovement
    \/ WallCollisions
    \/ PaddleCollisions
    \/ OutOfBounds
    \/ BoostLogic
    \/ CoinLogic(CoinRand)
    \/ CoinLoop

SpecPaddles == Init /\ [][NextPaddles]_vars

\* The idle game: the ball never launched, no keys, many frames.
NextIdle ==
    \/ Startup(LoadsAll)
    \/ PollQuit
    \/ PollMouseButtonDown(ClicksOff)
    \/ PaddleMovement(KeysGame, MaxIdleFrame)
    \/ BallMovement
    \/ WallCollisions
    \/ PaddleCollisions
    \/ OutOfBounds
    \/ BoostLogic
    \/ CoinLogic(CoinRand)
    \/ CoinLoop

SpecIdle == Init /\ [][NextIdle]_vars

\* The rally: the game with S and UP held.
NextRally ==
    \/ Startup(LoadsAll)
    \/ PollQuit
    \/ PollMouseButtonDown(Clicks)
    \/ PaddleMovement(KeysRally, MaxRallyFrame)
    \/ BallMovement
    \/ WallCollisions
    \/ PaddleCollisions
    \/ OutOfBounds
    \/ BoostLogic
    \/ CoinLogic(CoinRand)
    \/ CoinLoop

SpecRally == Init /\ [][NextRally]_vars

\* The start-up: every outcome of the loads, then a few frames of the game.
NextStartup ==
    \/ Startup(Loads)
    \/ PollQuit
    \/ PollMouseButtonDown(Clicks)
    \/ PaddleMovement(KeysGame, MaxStartFrame)
    \/ BallMovement
    \/ WallCollisions
    \/ PaddleCollisions
    \/ OutOfBounds
    \/ BoostLogic
    \/ CoinLogic(CoinRand)
    \/ CoinLoop

SpecStartup == Init /\ [][NextStartup]_vars

\* Static paddles, long enough for a paddle hit followed by a miss-reset,
\* with coins where the ball is in a hit frame and in a miss-reset frame.
NextCoins ==
    \/ Startup(LoadsAll)
    \/ PollQuit
    \/ PollMouseButtonDown(Clicks)
    \/ PaddleMovement(KeysGame, MaxCoinFrame)
    \/ BallMovement
    \/ WallCollisions
    \/ PaddleCollisions
    \/ OutOfBounds
    \/ BoostLogic
    \/ CoinLogic(CoinRandNear)
    \/ CoinLoop

SpecCoins == Init /\ [][NextCoins]_vars

\* ------------------------------------------------------------------ claims
\* One iteration's steps after the event loop: SDL_PollEvent returns 0 once
\* the queue is empty, and each step of the body is followed by the next.
FrameStep ==
    \/ PaddleMovement(KeysGame, MaxProgressFrame)
    \/ BallMovement
    \/ WallCollisions
    \/ PaddleCollisions
    \/ OutOfBoundsFrom(AnglesProgress)
    \/ BoostLogic
    \/ CoinLogic(CoinRandOne)
    \/ CoinLoop

\* The loop kept running: static paddles, no quit event, and the frame steps
\* taken whenever they can be.
NextProgress ==
    \/ Startup(LoadsAll)
    \/ MouseButtonDown(Clicks, AnglesProgress)
    \/ FrameStep

SpecProgress ==
    Init /\ [][NextProgress]_vars /\ WF_vars(FrameStep)

EndOfFrame == pc \in {"Poll", "Exited"} /\ frame > 0

C2_MissScoring ==
    [][(pc = "Bounds" /\ pc' = "Boost") =>
        /\ PastLeftEdge =>
              /\ ev'.miss = "Left"
              /\ right_score' = right_score + 1
              /\ left_score' = left_score
        /\ (~PastLeftEdge /\ PastRightEdge) =>
              /\ ev'.miss = "Right"
              /\ left_score' = left_score + 1
              /\ right_score' = right_score
        /\ (~PastLeftEdge /\ ~PastRightEdge) => ev'.miss = "None"]_vars
    /\ [](EndOfFrame /\ ev.miss /= "None" =>
            /\ 2 * ball_x = WINDOW_WIDTH * U
            /\ 2 * ball_y = WINDOW_HEIGHT * U
            /\ ball_dx /= 0
            /\ ball_dy /= 0
            /\ left_consecutive_hits = 0
            /\ right_consecutive_hits = 0
            /\ last_ball_hit = "None")

\* The end of a frame in which the ball went past the left edge, after an
\* earlier frame in which it went past the right edge.
C2_Witness ==
    /\ EndOfFrame
    /\ ev.miss = "Left"
    /\ left_score = 1
    /\ right_score = 1
    /\ ball_dx /= 0 /\ ball_dy /= 0

\* C3 (as the specification states it): at the end of a frame in which a
\* miss-reset happened, current_ball_speed is INITIAL_BALL_SPEED and
\* ball_boost_timer is 0, also when a wall reflection happened in that frame.
C3_MissResetsBoost ==
    (EndOfFrame /\ ev.miss /= "None") =>
        /\ current_ball_speed = INITIAL_BALL_SPEED
        /\ ball_boost_timer = 0

\* C4 (amended): at the end of a frame in which a wall or paddle reflection
\* happened the speed is INITIAL_BALL_SPEED * BALL_BOOST_FACTOR; with no new
\* reflection, miss-reset or launch since, it is still boosted at the end of
\* each of the next BALL_BOOST_DURATION_FRAMES - 2 = 28 frames, and it is
\* INITIAL_BALL_SPEED, with the timer at 0, from the end of the 29th frame
\* after the reflection frame on.
C4_BoostLasts29 ==
    EndOfFrame =>
        /\ (ev.wall /= "None" \/ ev.hit /= "None") =>
              since_reflection = 0 /\ current_ball_speed = BoostedSpeed
        /\ since_reflection \in 0..(BALL_BOOST_DURATION_FRAMES - 2) =>
              /\ current_ball_speed = BoostedSpeed
              /\ ball_boost_timer = BALL_BOOST_DURATION_FRAMES - 1 - since_reflection
        /\ since_reflection >= BALL_BOOST_DURATION_FRAMES - 1 =>
              /\ current_ball_speed = INITIAL_BALL_SPEED
              /\ ball_boost_timer = 0

\* The boost has just run out: the end of the 29th frame after a reflection
\* frame, the speed back at its base value.
C4_Witness ==
    /\ EndOfFrame
    /\ since_reflection = BALL_BOOST_DURATION_FRAMES - 1
    /\ current_ball_speed = INITIAL_BALL_SPEED
    /\ ball_boost_timer = 0

\* C4 as the specification states it: boosted until, and base exactly,
\* BALL_BOOST_DURATION_FRAMES = 30 frames after the reflection frame.
C4_Original ==
    EndOfFrame =>
        /\ since_reflection \in 0..(BALL_BOOST_DURATION_FRAMES - 1) =>
              current_ball_speed = BoostedSpeed
        /\ since_reflection = BALL_BOOST_DURATION_FRAMES =>
              current_ball_speed = INITIAL_BALL_SPEED

\* The coin loop's outcome for the coin at index i of coins, stated on the
\* state before the loop: does it outlive this frame, and who overlaps it.
C5_Alive(i) == coins[i].timer - 1 > 0
C5_OnBall(i) == checkCircleRectCollision(ball_x, ball_y, BALL_RADIUS, CoinRect(coins[i]))
C5_OnLeft(i) == checkRectRectCollision(leftPaddle, CoinRect(coins[i]))
C5_OnRight(i) == checkRectRectCollision(rightPaddle, CoinRect(coins[i]))
C5_Kept(i) == C5_Alive(i) /\ ~C5_OnBall(i) /\ ~C5_OnLeft(i) /\ ~C5_OnRight(i)
C5_PaysLeft(i) ==
    C5_Alive(i) /\ IF C5_OnBall(i) THEN last_ball_hit = "Left" ELSE C5_OnLeft(i)
C5_PaysRight(i) ==
    C5_Alive(i) /\ IF C5_OnBall(i) THEN last_ball_hit = "Right"
                   ELSE ~C5_OnLeft(i) /\ C5_OnRight(i)

C6_FirstCoin ==
    (EndOfFrame /\ Stationary) =>
        /\ frame < COIN_APPEAR_INTERVAL_FRAMES => coins = <<>>
        /\ frame = COIN_APPEAR_INTERVAL_FRAMES =>
              \/ /\ Len(coins) = 1
                 /\ coins[1].born = frame
                 /\ ev.collected = {}
                 /\ ~checkCircleRectCollision(ball_x, ball_y, BALL_RADIUS, CoinRect(coins[1]))
              \/ /\ coins = <<>>
                 /\ ev.collected = {[born |-> frame, by |-> "Ball"]}
                 /\ left_score = 0 /\ right_score = 0

\* The end of frame 300 with the ball still at rest and the first coin in the list.
C6_Witness ==
    /\ EndOfFrame
    /\ Stationary
    /\ frame = COIN_APPEAR_INTERVAL_FRAMES
    /\ Len(coins) = 1

\* C6 as the specification states it: exactly one coin at the end of frame
\* 300, wherever it was spawned.
C6_Original ==
    (EndOfFrame /\ Stationary) =>
        /\ frame < COIN_APPEAR_INTERVAL_FRAMES => coins = <<>>
        /\ frame = COIN_APPEAR_INTERVAL_FRAMES => Len(coins) = 1

\* C7 (amended): a coin that nothing collects is in the list at the end of its
\* spawn frame s and of every frame up to s + COIN_DURATION_FRAMES - 2, and is
\* removed by the coin loop of frame s + COIN_DURATION_FRAMES - 1 = s + 599,
\* the 600th frame of its life counting the spawn frame; the removal changes
\* neither score.
C7_ExpiryAt599 ==
    [][(pc = "Coins" /\ pc' /= "Coins") =>
        /\ \A i \in 1..Len(coins) :
              LET c == coins[i]
                  stays == \E j \in 1..Len(coins') : coins'[j].born = c.born
                  taken == \E t \in ev'.collected : t.born = c.born
              IN  IF frame = c.born + COIN_DURATION_FRAMES - 1
                  THEN c.born \in ev'.expired /\ ~stays /\ ~taken
                  ELSE /\ frame < c.born + COIN_DURATION_FRAMES - 1
                       /\ c.born \notin ev'.expired
                       /\ stays \/ taken
        /\ ev'.collected = {} => (left_score' = left_score /\ right_score' = right_score)]_vars

\* The end of a frame whose coin loop removed an expired coin and collected
\* none, with a younger coin still in the list.
C7_Witness ==
    /\ EndOfFrame
    /\ ev.expired /= {}
    /\ ev.collected = {}
    /\ Len(coins) = 1
    /\ left_score = 0 /\ right_score = 0

\* C7 as the specification states it: the coin is removed in the frame
\* COIN_DURATION_FRAMES = 600 after its spawn frame.
C7_Original ==
    EndOfFrame => \A b \in ev.expired : frame = b + COIN_DURATION_FRAMES

\* C8: after the paddle step of every frame, under every state of the four
\* movement keys, each paddle's y is within [0, WINDOW_HEIGHT - PADDLE_HEIGHT],
\* and the paddles' x, width and height keep their initial values.
C8_PaddleBounds ==
    /\ leftPaddle.y \in 0..(WINDOW_HEIGHT - PADDLE_HEIGHT)
    /\ rightPaddle.y \in 0..(WINDOW_HEIGHT - PADDLE_HEIGHT)
    /\ leftPaddle.x = 0 /\ rightPaddle.x = WINDOW_WIDTH - PADDLE_WIDTH
    /\ leftPaddle.w = PADDLE_WIDTH /\ rightPaddle.w = PADDLE_WIDTH
    /\ leftPaddle.h = PADDLE_HEIGHT /\ rightPaddle.h = PADDLE_HEIGHT

\* Both clamps have acted: the left paddle was stopped at the top edge and the
\* right paddle at the bottom edge (neither value is reached by steps of 6).
C8_Witness ==
    /\ pc = "Move"
    /\ leftPaddle.y = 0
    /\ rightPaddle.y = WINDOW_HEIGHT - PADDLE_HEIGHT

\* C9: in the wall step, a ball whose lower edge is past the bottom wall ends
\* with ball_y = WINDOW_HEIGHT - BALL_RADIUS and ball_dy <= 0; a ball whose
\* upper edge is past the top wall ends with ball_y = BALL_RADIUS and
\* ball_dy >= 0; ball_dx is unchanged and the frame is marked as reflected.
C9_WallReflection ==
    [][(pc = "Walls" /\ pc' = "Collide") =>
        /\ ball_y + BALL_RADIUS * U > WINDOW_HEIGHT * U =>
              /\ ball_y' = (WINDOW_HEIGHT - BALL_RADIUS) * U
              /\ ball_dy' <= 0
              /\ reflected_this_frame'
        /\ ball_y - BALL_RADIUS * U < 0 =>
              /\ ball_y' = BALL_RADIUS * U
              /\ ball_dy' >= 0
              /\ reflected_this_frame'
        /\ ball_dx' = ball_dx]_vars

\* The wall step has just turned the ball back at the bottom wall, on its way
\* back from a hit of the right paddle.
C9_Witness ==
    /\ pc = "Collide"
    /\ ev.wall = "Bottom"
    /\ ball_y = (WINDOW_HEIGHT - BALL_RADIUS) * U
    /\ ball_dy < 0
    /\ reflected_this_frame
    /\ last_event = "Right"

\* C10: a pointer-down event changes the game state only if the ball's
\* velocity is (0, 0) and the pointer is within BALL_RADIUS of the ball's
\* centre (the distance equal to the radius included); it then gives the ball
\* a direction with both components nonzero, sets the speed to
\* INITIAL_BALL_SPEED and the boost timer to 0, and moves nothing.  Any other
\* pointer-down event leaves ball, speed, timer, scores and hit state as they were.
C10_LaunchGating ==
    [][(pc = "Poll" /\ pc' = "Poll" /\ ev'.click /= ev.click) =>
        LET m == ev'.click.at
            distX == m[1] * U - ball_x
            distY == m[2] * U - ball_y
            r == BALL_RADIUS * U
        IN  IF Stationary /\ distX * distX + distY * distY <= r * r
            THEN /\ ev'.click.launched
                 /\ ball_dx' /= 0 /\ ball_dy' /= 0
                 /\ ball_x' = ball_x /\ ball_y' = ball_y
                 /\ current_ball_speed' = INITIAL_BALL_SPEED
                 /\ ball_boost_timer' = 0
                 /\ UNCHANGED <<paddleVars, coinVars, scoreVars, hitVars>>
            ELSE /\ ~ev'.click.launched
                 /\ UNCHANGED <<ballVars, boostVars, paddleVars, coinVars,
                                scoreVars, hitVars>>]_vars

\* The ball has just been launched by a click at distance exactly BALL_RADIUS
\* (9 right of and 12 below the centre).
C10_Witness ==
    /\ pc = "Poll"
    /\ ev.click = [at |-> <<409, 312>>, launched |-> TRUE]
    /\ ~Stationary
    /\ current_ball_speed = INITIAL_BALL_SPEED

\* C11: left_score and right_score are non-negative in every state, and no
\* step of the program (event, hit, miss, coin collection, coin expiry)
\* decreases either of them.
C11_ScoresMonotone ==
    /\ [](left_score >= 0 /\ right_score >= 0)
    /\ [][left_score' >= left_score /\ right_score' >= right_score]_vars

\* Both players have scored, one of them by collecting a coin with the ball.
C11_Witness ==
    /\ pc = "Poll"
    /\ left_score >= 1
    /\ right_score >= 1
    /\ \E c \in ev.collected : c.by = "Ball"

\* C12: in every state between two steps every coin of the list has timer > 0,
\* and at the end of a frame no coin that expired or was collected in that
\* frame is in the list.
C12_CoinLifetime ==
    /\ \A i \in 1..Len(coins) : coins[i].timer > 0
    /\ EndOfFrame =>
          \A i \in 1..Len(coins) :
              /\ coins[i].born \notin ev.expired
              /\ \A c \in ev.collected : c.born /= coins[i].born

\* The end of the last frame a coin is in the list (timer 1), a younger coin
\* beside it.
C12_Witness ==
    /\ EndOfFrame
    /\ Len(coins) = 2
    /\ coins[1].timer = 1

\* C13: every direction assigned by a launch or a miss-reset is that of an
\* angle with |cos| >= 0.2 and |sin| >= 0.2, and |ball_dx| >= 0.2 and
\* |ball_dy| >= 0.2 hold after it, and in every later state of the moving ball.
C13_DirectionBounds ==
    /\ [][((pc = "Poll" /\ Stationary /\ ~Stationary')
            \/ (pc = "Bounds" /\ ev'.miss /= "None")) =>
          /\ \E a \in Angles :
                /\ 5 * Abs(a[1]) >= D
                /\ 5 * Abs(a[2]) >= D
                /\ <<ball_dx', ball_dy'>> = LaunchDirection(a)
          /\ 5 * Abs(ball_dx') >= D
          /\ 5 * Abs(ball_dy') >= D]_vars
    /\ [](Stationary \/ (5 * Abs(ball_dx) >= D /\ 5 * Abs(ball_dy) >= D))

\* A miss-reset has just served the ball with |ball_dx| = 0.2 exactly.
C13_Witness ==
    /\ pc = "Boost"
    /\ ev.miss /= "None"
    /\ 5 * Abs(ball_dx) = D

\* C14 (as the specification states it): a failed load of the sound, the font
\* or the coin sprites never ends the program before the main loop; the program
\* returns from start-up only when SDL, the window or the renderer failed.
C14_AssetFailureKeepsLoop ==
    pc = "Failed" => ~assets.sdl

\* C15: no frame has both a paddle hit and a miss-reset; a paddle-collision
\* step that finds a hit leaves the ball just outside the paddle's face, where
\* neither out-of-bounds test of the same frame holds.
C15_HitExcludesMiss ==
    /\ [](ev.hit = "None" \/ ev.miss = "None")
    /\ [][(pc = "Collide" /\ ev'.hit /= "None") =>
            /\ ~PastLeftEdge' /\ ~PastRightEdge'
            /\ ev'.hit = "Left" => ball_x' = (PADDLE_WIDTH + BALL_RADIUS) * U
            /\ ev'.hit = "Right" =>
                  ball_x' = (WINDOW_WIDTH - PADDLE_WIDTH - BALL_RADIUS) * U]_vars

\* The out-of-bounds step has just passed over a ball that the left paddle
\* had pushed out to x = 35 in the same frame.
C15_Witness ==
    /\ pc = "Boost"
    /\ ev.hit = "Left"
    /\ ev.miss = "None"
    /\ ball_x = (PADDLE_WIDTH + BALL_RADIUS) * U

\* The step that follows pc within an iteration of the main loop.
C16_After(p) ==
    CASE p = "Move" -> "Walls"
      [] p = "Walls" -> "Collide"
      [] p = "Collide" -> "Bounds"
      [] p = "Bounds" -> "Boost"
      [] p = "Boost" -> "Spawn"
      [] p = "Spawn" -> "Coins"

\* C16: quit is set only by the event polling at the top of an iteration and
\* is never cleared; the iteration then runs all its steps in order, as it
\* does without quit; the loop is left at the end of that iteration and at no
\* other place, and no step follows it.
C16_QuitAtIterationEnd ==
    [][/\ (quit' /= quit) => (pc = "Poll" /\ pc' = "Poll" /\ quit')
       /\ (pc = "Poll" /\ pc' /= "Poll") => (pc' = "Move" /\ frame' = frame + 1)
       /\ (pc \in {"Move", "Walls", "Collide", "Bounds", "Boost", "Spawn"}) =>
             (pc' = C16_After(pc) /\ frame' = frame)
       /\ (pc = "Coins") => (pc' = (IF quit THEN "Exited" ELSE "Poll") /\ frame' = frame)
       /\ (pc' = "Exited") => (pc = "Coins" /\ quit)
       /\ (pc = "Exited") => FALSE]_vars

\* The program has left the loop after frame 1, and the ball, launched in the
\* polling that also saw the quit event, has moved in that frame.
C16_Witness ==
    /\ pc = "Exited"
    /\ quit
    /\ frame = 1
    /\ ~Stationary
    /\ 2 * ball_x /= WINDOW_WIDTH * U

\* C17: ball_dx points away from the paddle named by last_ball_hit, so a
\* paddle hit never finds last_ball_hit (nor the latest hit or miss-reset) on
\* its own side; no consecutive-hit counter exceeds 1, and no paddle-collision
\* step changes a score.
C17_HitsAlternate ==
    /\ [](/\ left_consecutive_hits \in {0, 1}
          /\ right_consecutive_hits \in {0, 1}
          /\ last_ball_hit = "Left" => ball_dx > 0
          /\ last_ball_hit = "Right" => ball_dx < 0)
    /\ [][(pc = "Collide" /\ pc' = "Bounds") =>
            /\ ev'.hit = "Left" => (last_ball_hit /= "Left" /\ last_event /= "Left")
            /\ ev'.hit = "Right" => (last_ball_hit /= "Right" /\ last_event /= "Right")
            /\ left_score' = left_score
            /\ right_score' = right_score]_vars

\* A paddle has just hit the ball on its way back from a hit of the other
\* paddle, no miss between the two.
C17_Witness ==
    /\ pc = "Bounds"
    /\ ev.hit = "Right"
    /\ last_event = "Right"
    /\ prev_event = "Left"
    /\ right_consecutive_hits = 1
    /\ left_consecutive_hits = 0
    /\ left_score = 0 /\ right_score = 0

\* C18: the collision rectangle of every coin in the list spans columns
\* within [PADDLE_WIDTH, WINDOW_WIDTH - PADDLE_WIDTH - 1] and overlaps neither
\* paddle; no coin is ever collected by a paddle, and a coin leaves the list
\* only by expiry or by ball collection.
C18_CoinsClearOfPaddles ==
    /\ [](\A i \in 1..Len(coins) :
            LET rect == CoinRect(coins[i])
            IN  /\ rect.x >= PADDLE_WIDTH
                /\ rect.x + rect.w - 1 <= WINDOW_WIDTH - PADDLE_WIDTH - 1
                /\ ~checkRectRectCollision(leftPaddle, rect)
                /\ ~checkRectRectCollision(rightPaddle, rect))
    /\ [](\A c \in ev.collected : c.by = "Ball")
    /\ [][(pc = "Coins" /\ pc' /= "Coins") =>
            \A i \in 1..Len(coins) :
                \/ \E j \in 1..Len(coins') : coins'[j].born = coins[i].born
                \/ coins[i].born \in ev'.expired
                \/ [born |-> coins[i].born, by |-> "Ball"] \in ev'.collected]_vars

\* The coin loop has just left in the list a coin of the leftmost column,
\* whose rectangle touches the left paddle's face and is level with the paddle.
C18_Witness ==
    /\ EndOfFrame
    /\ Len(coins) = 1
    /\ CoinRect(coins[1]).x = leftPaddle.x + leftPaddle.w
    /\ CoinRect(coins[1]).y > leftPaddle.y
    /\ CoinRect(coins[1]).y + CoinRect(coins[1]).h < leftPaddle.y + leftPaddle.h
    /\ ev.collected = {}

\* C19 (amended): a reflection in a frame whose boost timer is still running
\* (> 0) restarts the timer: the frame ends with the timer at
\* BALL_BOOST_DURATION_FRAMES - 1, as after a reflection with no boost
\* running, whatever was left of the old boost; the speed is
\* INITIAL_BALL_SPEED * BALL_BOOST_FACTOR and never anything but that or
\* INITIAL_BALL_SPEED; with no further reflection, miss-reset or launch the
\* ball stays boosted to the end of the 28th frame after that reflection frame
\* and is back at INITIAL_BALL_SPEED, timer 0, from the end of the 29th on.
C19_BoostRestart ==
    /\ [][(pc = "Boost" /\ reflected_this_frame /\ ball_boost_timer > 0) =>
            /\ ball_boost_timer' = BALL_BOOST_DURATION_FRAMES - 1
            /\ current_ball_speed' = BoostedSpeed]_vars
    /\ [](/\ current_ball_speed \in {INITIAL_BALL_SPEED, BoostedSpeed}
          /\ ball_boost_timer \in 0..BALL_BOOST_DURATION_FRAMES)
    /\ []((EndOfFrame /\ timer_at_reflection > 0) =>
            /\ since_reflection \in 0..(BALL_BOOST_DURATION_FRAMES - 2) =>
                  /\ current_ball_speed = BoostedSpeed
                  /\ ball_boost_timer =
                        BALL_BOOST_DURATION_FRAMES - 1 - since_reflection
            /\ since_reflection >= BALL_BOOST_DURATION_FRAMES - 1 =>
                  /\ current_ball_speed = INITIAL_BALL_SPEED
                  /\ ball_boost_timer = 0)

\* A boost restarted by a second reflection has just run out, 29 frames after
\* that second reflection.
C19_Witness ==
    /\ EndOfFrame
    /\ timer_at_reflection > 0
    /\ since_reflection = BALL_BOOST_DURATION_FRAMES - 1
    /\ current_ball_speed = INITIAL_BALL_SPEED
    /\ ball_boost_timer = 0

\* C19 as the specification states it: after a restart the ball stays boosted
\* for the full BALL_BOOST_DURATION_FRAMES = 30 frames after the latest
\* reflection frame.
C19_Original ==
    (EndOfFrame /\ timer_at_reflection > 0) =>
        /\ since_reflection \in 0..(BALL_BOOST_DURATION_FRAMES - 1) =>
              current_ball_speed = BoostedSpeed
        /\ since_reflection = BALL_BOOST_DURATION_FRAMES =>
              current_ball_speed = INITIAL_BALL_SPEED

\* C20: the coin loop pays a coin the ball collects to last_ball_hit as the
\* paddle-collision and out-of-bounds steps of the same frame left it: in a
\* frame with a left (right) paddle hit last_ball_hit is Left (Right) and each
\* coin the ball collects adds exactly one point to the left (right) score and
\* none to the other; in the frame of a miss-reset, and while no paddle has
\* hit the ball since the last reset, last_ball_hit is None and a collection
\* changes neither score; in each case the collected coin leaves the list.
C20_BallCoinAttribution ==
    [][pc = "Coins" =>
        LET n == Cardinality({c \in ev'.collected : c.by = "Ball"})
        IN  /\ ev.hit = "Left" =>
                  /\ last_ball_hit = "Left"
                  /\ left_score' = left_score + n
                  /\ right_score' = right_score
            /\ ev.hit = "Right" =>
                  /\ last_ball_hit = "Right"
                  /\ right_score' = right_score + n
                  /\ left_score' = left_score
            /\ (ev.miss /= "None" \/ last_event \in {"None", "Miss"}) =>
                  /\ last_ball_hit = "None"
                  /\ left_score' = left_score
                  /\ right_score' = right_score
            /\ \A c \in ev'.collected :
                  \A j \in 1..Len(coins') : coins'[j].born /= c.born]_vars

\* The ball, reset to the window center by a miss that followed a paddle hit,
\* has collected the coin there: the only point is the one the miss paid.
C20_Witness ==
    /\ EndOfFrame
    /\ ev.miss /= "None"
    /\ prev_event \in {"Left", "Right"}
    /\ \E c \in ev.collected : c.by = "Ball"
    /\ coins = <<>>
    /\ left_score + right_score = 1

\* C21: between frames (the loop head, and after the loop) ball_boost_timer is
\* in 0..BALL_BOOST_DURATION_FRAMES - 1, current_ball_speed is
\* INITIAL_BALL_SPEED or INITIAL_BALL_SPEED * BALL_BOOST_FACTOR, and it is the
\* boosted value exactly when the timer is above 0.
C21_BoostConsistent ==
    pc \in {"Poll", "Exited"} =>
        /\ ball_boost_timer \in 0..(BALL_BOOST_DURATION_FRAMES - 1)
        /\ current_ball_speed \in {INITIAL_BALL_SPEED, BoostedSpeed}
        /\ (current_ball_speed = BoostedSpeed) <=> (ball_boost_timer > 0)

\* The end of a frame with a wall reflection and a miss-reset: the boost
\* step ran after the reset, so the timer is 29 and the speed is boosted.
C21_Witness ==
    /\ EndOfFrame
    /\ ev.wall /= "None"
    /\ ev.miss /= "None"
    /\ ball_boost_timer = BALL_BOOST_DURATION_FRAMES - 1
    /\ current_ball_speed = BoostedSpeed

\* C22: between frames each consecutive-hit counter is 0 or 1; with
\* last_ball_hit = None both are 0, with last_ball_hit = Left the right
\* counter is 0, and with last_ball_hit = Right the left counter is 0.
C22_HitCounters ==
    pc \in {"Poll", "Exited"} =>
        /\ left_consecutive_hits \in {0, 1}
        /\ right_consecutive_hits \in {0, 1}
        /\ last_ball_hit = "None" =>
              left_consecutive_hits = 0 /\ right_consecutive_hits = 0
        /\ last_ball_hit = "Left" => right_consecutive_hits = 0
        /\ last_ball_hit = "Right" => left_consecutive_hits = 0

\* The left paddle has hit the ball after the right paddle had: the left
\* streak is 1 and the right streak, 1 until this hit, is back at 0.
C22_Witness ==
    /\ EndOfFrame
    /\ ev.hit = "Left"
    /\ prev_event = "Right"
    /\ last_ball_hit = "Left"
    /\ left_consecutive_hits = 1
    /\ right_consecutive_hits = 0

\* C23: between frames the whole ball lies inside the window:
\* BALL_RADIUS <= ball_x <= WINDOW_WIDTH - BALL_RADIUS and
\* BALL_RADIUS <= ball_y <= WINDOW_HEIGHT - BALL_RADIUS.
C23_BallInWindow ==
    pc \in {"Poll", "Exited"} =>
        /\ BALL_RADIUS * U <= ball_x
        /\ ball_x <= (WINDOW_WIDTH - BALL_RADIUS) * U
        /\ BALL_RADIUS * U <= ball_y
        /\ ball_y <= (WINDOW_HEIGHT - BALL_RADIUS) * U

\* The ball has passed the left paddle's face without being hit and its left
\* edge is within a step of the window's edge; the next frame is the miss.
C23_Witness ==
    /\ EndOfFrame
    /\ ev.miss = "None"
    /\ ball_dx < 0
    /\ ball_x < (leftPaddle.x + PADDLE_WIDTH) * U
    /\ ball_x + ball_dx * current_ball_speed - BALL_RADIUS * U < 0

\* C24: the coin list never holds more than 2 coins, at any step of any
\* frame; a spawn adds one coin, resets coin_spawn_timer to 0 and happens in
\* the frames that are multiples of COIN_APPEAR_INTERVAL_FRAMES; between
\* frames coin_spawn_timer is in 0..COIN_APPEAR_INTERVAL_FRAMES - 1; and no
\* coin is in the list COIN_DURATION_FRAMES frames after its spawn frame.
C24_CoinPopulation ==
    /\ [](Len(coins) <= 2)
    /\ [](pc \in {"Poll", "Exited"} =>
            coin_spawn_timer \in 0..(COIN_APPEAR_INTERVAL_FRAMES - 1))
    /\ [](\A i \in 1..Len(coins) : frame - coins[i].born < COIN_DURATION_FRAMES)
    /\ [][Len(coins') > Len(coins) =>
            /\ Len(coins') = Len(coins) + 1
            /\ coin_spawn_timer' = 0
            /\ frame % COIN_APPEAR_INTERVAL_FRAMES = 0]_vars

\* The third coin has just been spawned, in frame 900: the list holds it and
\* the second coin, the first having expired in the frame before.
C24_Witness ==
    /\ pc = "Coins"
    /\ frame = 3 * COIN_APPEAR_INTERVAL_FRAMES
    /\ Len(coins) = 2
    /\ coins[1].born = 2 * COIN_APPEAR_INTERVAL_FRAMES
    /\ coins[2].born = 3 * COIN_APPEAR_INTERVAL_FRAMES
    /\ coin_spawn_timer = 0

\* C25: a ball that moves never has ball_dx = 0 again; a click launches only
\* a ball at rest, so there is at most one click-launch, and a pointer-down
\* event with the ball moving changes nothing of the game state; while the
\* ball is at rest it is at the window center, last_ball_hit is None and both
\* hit counters and both scores are 0.
C25_StationaryOnlyBeforeLaunch ==
    /\ [][ball_dx /= 0 => ball_dx' /= 0]_vars
    /\ [][(ev'.click /= ev.click /\ ev'.click.launched) =>
            /\ ball_dx = 0 /\ ball_dy = 0
            /\ ball_dx' /= 0]_vars
    /\ [][(pc = "Poll" /\ ev'.click /= ev.click /\ ball_dx /= 0) =>
            /\ ~ev'.click.launched
            /\ UNCHANGED <<ballVars, boostVars, paddleVars, coinVars, scoreVars,
                           hitVars, quit>>]_vars
    /\ []((ball_dx = 0 /\ ball_dy = 0) =>
            /\ ball_x = (WINDOW_WIDTH * U) \div 2
            /\ ball_y = (WINDOW_HEIGHT * U) \div 2
            /\ last_ball_hit = "None"
            /\ left_consecutive_hits = 0 /\ right_consecutive_hits = 0
            /\ left_score = 0 /\ right_score = 0)

\* A click on the ball one frame after its launch: the ball, still within
\* its radius of the window center, is moving and the click did nothing.
C25_Witness ==
    /\ pc = "Poll"
    /\ frame = 1
    /\ ball_dx /= 0
    /\ ball_x /= (WINDOW_WIDTH * U) \div 2
    /\ ev.click = [at |-> <<400, 300>>, launched |-> FALSE]

\* Frames a ball needs at most from the window center to an edge: the distance
\* WINDOW_WIDTH / 2 - BALL_RADIUS at the smallest horizontal step, 0.2 of
\* INITIAL_BALL_SPEED, and one frame more for the edge test to turn true. (A
\* ball leaving a paddle has up to twice as far to go; the hits of this
\* specification are by the faster angle, which crosses in fewer frames.)
C26_Gap ==
    (((WINDOW_WIDTH \div 2) - BALL_RADIUS) * U) \div ((D \div 5) * INITIAL_BALL_SPEED) + 1

\* C26: the speed is always positive and ball_dx is changed only by a launch,
\* a paddle hit or a miss-reset; and from every loop head with the ball
\* moving and at least C26_Gap frames still to run, a later frame has a paddle
\* hit or a miss-reset.
C26_Progress ==
    /\ [](current_ball_speed > 0)
    /\ [][ball_dx' /= ball_dx =>
            \/ ev'.click /= ev.click /\ ev'.click.launched
            \/ ev'.hit /= ev.hit
            \/ ev'.miss /= ev.miss]_vars
    /\ [](( /\ pc = "Poll"
            /\ ball_dx /= 0
            /\ frame + C26_Gap <= MaxProgressFrame)
          => <>(pc = "Boost" /\ (ev.hit /= "None" \/ ev.miss /= "None")))

\* The slowest launch, |ball_dx| = 0.2: the ball has bounced off both walls
\* and is missed at the edge more than 460 frames after the launch.
C26_Witness ==
    /\ pc = "Boost"
    /\ ev.miss /= "None"
    /\ prev_event = "None"
    /\ frame > 460

=============================================================================
